---- MODULE Spec2Model ----
(***************************************************************************)
(* A model of the selenium MCP server (src/server.py): the session         *)
(* registry BrowserlessManager, the lazy global accessor                   *)
(* get_browserless_manager, and the tool handlers layered on them.         *)
(*                                                                         *)
(* Strings the code transforms (rstrip, lower, concatenation) are          *)
(* sequences of one-character strings.  Optional[str] is <<>> for None and *)
(* <<s>> for the string s.  A WebDriver object is the index, in `remote`,  *)
(* of the webdriver.Remote call that returned it; 0 stands for None.       *)
(* A BrowserlessManager object is its index in the heap `managers`; 0 is   *)
(* None.  A dict is the insertion-ordered sequence of its items.           *)
(*                                                                         *)
(* The handlers are `async def` bodies without any await, so the event     *)
(* loop runs each of them to completion: one action per handler.           *)
(***************************************************************************)
EXTENDS Integers, Sequences, FiniteSets, TLC

\* ---------------------------------------------------------------- bounds

\* Number of events in a run: handler invocations and environment changes.
MaxCalls == 3

\* Number of distinct ctx.session_id values the dispatch layer supplies.
NumSessions == 2

Sessions == 1..NumSessions

\* ---------------------------------------------------------------- strings

NoneStr == <<>>

Some(s) == <<s>>

\* Python truthiness of an Optional[str]: None and "" are falsy.
Truthy(opt) == opt # <<>> /\ opt[1] # <<>>

\* Python truthiness of an Optional[WebDriver] (a WebDriver has no __bool__).
NoDriver == 0

UpperChars == <<"A", "B", "C", "D", "E", "F", "G", "H", "I", "J", "K", "L", "M",
                "N", "O", "P", "Q", "R", "S", "T", "U", "V", "W", "X", "Y", "Z">>

LowerChars == <<"a", "b", "c", "d", "e", "f", "g", "h", "i", "j", "k", "l", "m",
                "n", "o", "p", "q", "r", "s", "t", "u", "v", "w", "x", "y", "z">>

lower_char(c) ==
    IF \E i \in 1..Len(UpperChars) : UpperChars[i] = c
    THEN LowerChars[CHOOSE i \in 1..Len(UpperChars) : UpperChars[i] = c]
    ELSE c

\* str.lower()
lower(s) == [i \in 1..Len(s) |-> lower_char(s[i])]

RECURSIVE rstrip(_, _)
\* str.rstrip(ch): drop every trailing ch.
rstrip(s, ch) ==
    IF s # <<>> /\ s[Len(s)] = ch THEN rstrip(SubSeq(s, 1, Len(s) - 1), ch) ELSE s

\* ---------------------------------------------------------------- dict

\* A dict: the sequence of its items [k, v] in insertion order.
DictKeys(d) == [i \in 1..Len(d) |-> d[i].k]

DictHas(d, key) == \E i \in 1..Len(d) : d[i].k = key

\* d.get(key): the value, or None.
DictGet(d, key) ==
    IF DictHas(d, key) THEN d[CHOOSE i \in 1..Len(d) : d[i].k = key].v ELSE NoDriver

\* d[key] = val: replaces the value of an existing key, appends a new one.
DictSet(d, key, val) ==
    IF DictHas(d, key)
    THEN [i \in 1..Len(d) |-> IF d[i].k = key THEN [k |-> key, v |-> val] ELSE d[i]]
    ELSE Append(d, [k |-> key, v |-> val])

RECURSIVE DictDel(_, _)
\* del d[key]
DictDel(d, key) ==
    IF d = <<>> THEN <<>>
    ELSE IF d[1].k = key THEN Tail(d)
    ELSE <<d[1]>> \o DictDel(Tail(d), key)

\* ---------------------------------------------------------------- BrowserlessManager

\* f"{self.browserless_url}/webdriver" appends this suffix.
WebdriverPath == <<"/", "w", "e", "b", "d", "r", "i", "v", "e", "r">>

\* The options create_driver builds for the default browser "chrome".
ChromeOptions ==
    [browser |-> "chrome",
     arguments |-> <<"--no-sandbox", "--disable-dev-shm-usage", "--disable-gpu">>]

\* The plain-string command_executor of the unauthenticated path.
StrExecutor(url) == [cls |-> "str", value |-> url, auth_token |-> NoneStr]

\* AuthenticatedRemoteConnection(executor_url, auth_token=self.auth_token)
AuthenticatedRemoteConnection(url, token) ==
    [cls |-> "AuthenticatedRemoteConnection", value |-> url, auth_token |-> token]

\* BrowserlessManager.__init__
BrowserlessManager(browserless_url, auth_token) ==
    [browserless_url |-> rstrip(browserless_url, "/"),
     auth_token |-> auth_token,
     drivers |-> <<>>]

\* create_driver taking the unauthenticated branch whatever the token.
command_executor_plain(m) == StrExecutor(m.browserless_url \o WebdriverPath)

\* The command_executor argument create_driver hands to webdriver.Remote.
command_executor(m) ==
    LET executor_url == m.browserless_url \o WebdriverPath
    IN  IF Truthy(m.auth_token)
        THEN AuthenticatedRemoteConnection(executor_url, m.auth_token)
        ELSE StrExecutor(executor_url)

\* webdriver.Remote(command_executor=..., options=...): one more entry in the
\* log of connection-establishment calls; `ok` is whether it returned a driver
\* (TRUE) or raised (FALSE).
Remote(rem, executor, options, ok) ==
    Append(rem, [command_executor |-> executor, options |-> options, ok |-> ok,
                 quits |-> 0, quit_errors |-> 0])

\* create_driver with `self.drivers.setdefault(session_id, driver)` in place of
\* the assignment: an existing entry is kept.
create_driver_setdefault(m, rem, session_id, ok) ==
    LET rem2 == Remote(rem, command_executor(m), ChromeOptions, ok)
        driver == Len(rem2)
    IN  IF ok
        THEN [mgr |-> IF DictHas(m.drivers, session_id) THEN m
                      ELSE [m EXCEPT !.drivers = DictSet(m.drivers, session_id, driver)],
              remote |-> rem2, ret |-> driver, raised |-> FALSE]
        ELSE [mgr |-> m, remote |-> rem2, ret |-> NoDriver, raised |-> TRUE]

\* WebDriver.quit() on driver h; `fails` is whether it raises.
quit(rem, h, fails) ==
    [rem EXCEPT ![h].quits = @ + 1,
                ![h].quit_errors = @ + (IF fails THEN 1 ELSE 0)]

\* create_driver that quits the driver an existing entry holds before it
\* stores the new one.
create_driver_closes_prior(m, rem, session_id, ok) ==
    LET rem1 == IF DictHas(m.drivers, session_id)
                THEN quit(rem, DictGet(m.drivers, session_id), FALSE)
                ELSE rem
        rem2 == Remote(rem1, command_executor(m), ChromeOptions, ok)
        driver == Len(rem2)
    IN  IF ok
        THEN [mgr |-> [m EXCEPT !.drivers = DictSet(m.drivers, session_id, driver)],
              remote |-> rem2, ret |-> driver, raised |-> FALSE]
        ELSE [mgr |-> m, remote |-> rem2, ret |-> NoDriver, raised |-> TRUE]

\* BrowserlessManager.create_driver on manager m: the manager and the
\* connection log afterwards, the driver returned (NoDriver when
\* webdriver.Remote raised) and whether it raised.
create_driver(m, rem, session_id, ok) ==
    LET rem2 == Remote(rem, command_executor(m), ChromeOptions, ok)
        driver == Len(rem2)
    IN  IF ok
        THEN [mgr |-> [m EXCEPT !.drivers = DictSet(m.drivers, session_id, driver)],
              remote |-> rem2, ret |-> driver, raised |-> FALSE]
        ELSE [mgr |-> m, remote |-> rem2, ret |-> NoDriver, raised |-> TRUE]

\* get_driver that opens a session for an id it does not find.
get_driver_or_create(m, rem, session_id) ==
    IF DictHas(m.drivers, session_id)
    THEN [mgr |-> m, remote |-> rem, ret |-> DictGet(m.drivers, session_id), raised |-> FALSE]
    ELSE create_driver(m, rem, session_id, TRUE)

\* BrowserlessManager.get_driver
get_driver(m, rem, session_id) ==
    [mgr |-> m, remote |-> rem, ret |-> DictGet(m.drivers, session_id), raised |-> FALSE]

\* close_driver without the `if session_id in self.drivers` guard: the
\* subscript raises KeyError for an id that is not mapped.
close_driver_unguarded(m, rem, session_id, fails) ==
    IF DictHas(m.drivers, session_id)
    THEN [mgr |-> [m EXCEPT !.drivers = DictDel(m.drivers, session_id)],
          remote |-> quit(rem, DictGet(m.drivers, session_id), fails),
          ret |-> NoDriver, raised |-> FALSE]
    ELSE [mgr |-> m, remote |-> rem, ret |-> NoDriver, raised |-> TRUE]

\* close_driver without the `del self.drivers[session_id]`.
close_driver_keeps_entry(m, rem, session_id, fails) ==
    IF DictHas(m.drivers, session_id)
    THEN [mgr |-> m,
          remote |-> quit(rem, DictGet(m.drivers, session_id), fails),
          ret |-> NoDriver, raised |-> FALSE]
    ELSE [mgr |-> m, remote |-> rem, ret |-> NoDriver, raised |-> FALSE]

\* close_driver without the try/except around quit(): a failing quit
\* propagates and the `del` is not reached.
close_driver_propagates(m, rem, session_id, fails) ==
    IF DictHas(m.drivers, session_id)
    THEN [mgr |-> IF fails THEN m
                  ELSE [m EXCEPT !.drivers = DictDel(m.drivers, session_id)],
          remote |-> quit(rem, DictGet(m.drivers, session_id), fails),
          ret |-> NoDriver, raised |-> fails]
    ELSE [mgr |-> m, remote |-> rem, ret |-> NoDriver, raised |-> FALSE]

\* BrowserlessManager.close_driver; `fails` is whether the driver's quit raises
\* (the exception is caught and dropped).
close_driver(m, rem, session_id, fails) ==
    IF DictHas(m.drivers, session_id)
    THEN [mgr |-> [m EXCEPT !.drivers = DictDel(m.drivers, session_id)],
          remote |-> quit(rem, DictGet(m.drivers, session_id), fails),
          ret |-> NoDriver, raised |-> FALSE]
    ELSE [mgr |-> m, remote |-> rem, ret |-> NoDriver, raised |-> FALSE]

RECURSIVE close_all_loop(_, _, _, _)
\* The loop of close_all over the snapshot list(self.drivers.keys()); failing
\* is the set of drivers whose quit raises.
close_all_loop(m, rem, keys, failing) ==
    IF keys = <<>>
    THEN [mgr |-> m, remote |-> rem, ret |-> NoDriver, raised |-> FALSE]
    ELSE LET r == close_driver(m, rem, keys[1],
                               DictGet(m.drivers, keys[1]) \in failing)
         IN  IF r.raised THEN r
             ELSE close_all_loop(r.mgr, r.remote, Tail(keys), failing)

\* close_all iterating self.drivers itself instead of list(self.drivers.keys()):
\* the first deletion makes the iteration raise RuntimeError.
close_all_no_snapshot(m, rem, failing) ==
    IF m.drivers = <<>>
    THEN [mgr |-> m, remote |-> rem, ret |-> NoDriver, raised |-> FALSE]
    ELSE LET r == close_driver(m, rem, m.drivers[1].k, m.drivers[1].v \in failing)
         IN  [r EXCEPT !.raised = TRUE]

\* BrowserlessManager.close_all
close_all(m, rem, failing) == close_all_loop(m, rem, DictKeys(m.drivers), failing)

\* ---------------------------------------------------------------- the global accessor

NoManager == 0

\* get_browserless_manager testing `browserless_url is None` instead of
\* `not browserless_url`: an empty BROWSERLESS_URL constructs a manager.
get_browserless_manager_is_none(g, heap, environ) ==
    IF g = NoManager
    THEN IF environ.BROWSERLESS_URL = NoneStr
         THEN [global |-> g, managers |-> heap, ret |-> NoManager, raised |-> TRUE]
         ELSE LET heap2 == Append(heap, BrowserlessManager(environ.BROWSERLESS_URL[1],
                                                           environ.BROWSERLESS_TOKEN))
              IN  [global |-> Len(heap2), managers |-> heap2,
                   ret |-> Len(heap2), raised |-> FALSE]
    ELSE [global |-> g, managers |-> heap, ret |-> g, raised |-> FALSE]

\* get_browserless_manager without the `if browserless_manager is None` test:
\* every call reads the environment and constructs a manager.
get_browserless_manager_no_cache(g, heap, environ) ==
    IF ~Truthy(environ.BROWSERLESS_URL)
    THEN [global |-> g, managers |-> heap, ret |-> NoManager, raised |-> TRUE]
    ELSE LET heap2 == Append(heap, BrowserlessManager(environ.BROWSERLESS_URL[1],
                                                      environ.BROWSERLESS_TOKEN))
         IN  [global |-> Len(heap2), managers |-> heap2,
              ret |-> Len(heap2), raised |-> FALSE]

\* get_browserless_manager(): g is the global browserless_manager, heap the
\* BrowserlessManager objects constructed so far, environ the process
\* environment.  ret is the manager returned (NoManager when it raised).
get_browserless_manager(g, heap, environ) ==
    IF g = NoManager
    THEN IF ~Truthy(environ.BROWSERLESS_URL)
         THEN [global |-> g, managers |-> heap, ret |-> NoManager, raised |-> TRUE]
         ELSE LET heap2 == Append(heap, BrowserlessManager(environ.BROWSERLESS_URL[1],
                                                           environ.BROWSERLESS_TOKEN))
              IN  [global |-> Len(heap2), managers |-> heap2,
                   ret |-> Len(heap2), raised |-> FALSE]
    ELSE [global |-> g, managers |-> heap, ret |-> g, raised |-> FALSE]

\* ---------------------------------------------------------------- locator strategies

\* The dict literal of find_element and click_element.
by_method_table ==
    << [k |-> <<"c", "s", "s">>, v |-> "By.CSS_SELECTOR"],
       [k |-> <<"x", "p", "a", "t", "h">>, v |-> "By.XPATH"],
       [k |-> <<"i", "d">>, v |-> "By.ID"],
       [k |-> <<"n", "a", "m", "e">>, v |-> "By.NAME"],
       [k |-> <<"c", "l", "a", "s", "s", "_", "n", "a", "m", "e">>, v |-> "By.CLASS_NAME"],
       [k |-> <<"t", "a", "g", "_", "n", "a", "m", "e">>, v |-> "By.TAG_NAME"],
       [k |-> <<"l", "i", "n", "k", "_", "t", "e", "x", "t">>, v |-> "By.LINK_TEXT"],
       [k |-> <<"p", "a", "r", "t", "i", "a", "l", "_", "l", "i", "n", "k", "_", "t", "e", "x", "t">>,
        v |-> "By.PARTIAL_LINK_TEXT"] >>

\* The lookup without .lower().
by_method_case_sensitive(by) ==
    IF DictHas(by_method_table, by)
    THEN by_method_table[CHOOSE i \in 1..Len(by_method_table) :
                             by_method_table[i].k = by].v
    ELSE "By.CSS_SELECTOR"

\* {...}.get(params.by.lower(), By.CSS_SELECTOR)
by_method(by) ==
    LET key == lower(by)
    IN  IF DictHas(by_method_table, key)
        THEN by_method_table[CHOOSE i \in 1..Len(by_method_table) :
                                 by_method_table[i].k = key].v
        ELSE "By.CSS_SELECTOR"

\* ---------------------------------------------------------------- state

VARIABLES
    environ,             \* os.environ: BROWSERLESS_URL and BROWSERLESS_TOKEN
    browserless_manager, \* the module global: a manager of `managers`, or NoManager
    managers,            \* the BrowserlessManager objects constructed so far
    remote,              \* the webdriver.Remote calls made so far, each with the
                         \* quit calls its driver has received
    calls,               \* how many events (handler invocations, environment
                         \* changes) have completed
    last,                \* what the latest invocation did and returned
    since,               \* history: per session id, what has happened since
                         \* close_driver was last invoked for it
    waiting,             \* the requests the server has accepted and whose
                         \* handler coroutine has not started
    running,             \* the request whose handler the event-loop thread is
                         \* executing (at most one), with what it observed
    stopped              \* whether main() has returned

vars == <<environ, browserless_manager, managers, remote, calls, last, since,
          waiting, running, stopped>>

\* The dispatch state, which a direct call of a handler leaves alone.
dispatch == <<waiting, running, stopped>>

\* Values BROWSERLESS_URL takes: unset, "", "h", "h//".
UrlValues == {NoneStr, Some(<<>>), Some(<<"h">>), Some(<<"h", "/", "/">>)}

\* Values BROWSERLESS_TOKEN takes: unset, "", "t".
TokenValues == {NoneStr, Some(<<>>), Some(<<"t">>)}

\* Values of params.by the callers send.
ByValues ==
    { <<"c", "s", "s">>, <<"x", "p", "a", "t", "h">>, <<"i", "d">>, <<"n", "a", "m", "e">>,
      <<"c", "l", "a", "s", "s", "_", "n", "a", "m", "e">>,
      <<"t", "a", "g", "_", "n", "a", "m", "e">>,
      <<"l", "i", "n", "k", "_", "t", "e", "x", "t">>,
      <<"p", "a", "r", "t", "i", "a", "l", "_", "l", "i", "n", "k", "_", "t", "e", "x", "t">>,
      <<"X", "P", "A", "T", "H">>, <<"I", "d">>,
      <<"C", "l", "a", "s", "s", "_", "N", "a", "m", "e">>,
      <<"u", "n", "k", "n", "o", "w", "n", "_", "s", "t", "r", "a", "t", "e", "g", "y">>,
      <<"c", "l", "a", "s", "s", " ", "n", "a", "m", "e">>,
      <<>> }

\* The strategy names the runs of Spec send: the default and a name that
\* needs lower().  SpecStrategy sends every name of ByValues.
CommonBy == { <<"c", "s", "s">>, <<"X", "P", "A", "T", "H">> }

\* The record of one handler invocation.
Result(op, session_id, manager, had, driver, connects, raised, by, method) ==
    [op |-> op, session_id |-> session_id, manager |-> manager, had |-> had,
     driver |-> driver, connects |-> connects, raised |-> raised,
     by |-> by, by_method |-> method]

\* What a handler leaves behind: the global, the heap, the connection log, and
\* the record of the invocation.
Out(g, heap, rem, result) ==
    [global |-> g, managers |-> heap, remote |-> rem, result |-> result]

\* A handler whose get_browserless_manager() raised the ValueError.
ConfigError(a, rem, op, session_id) ==
    Out(a.global, a.managers, rem,
        Result(op, session_id, NoManager, FALSE, NoDriver, 0, "ValueError", <<>>, ""))

\* ---------------------------------------------------------------- handlers

\* get_browser_content (the browser://{url} resource).
get_browser_content(g, heap, rem, env, session_id, connect_ok, op_ok) ==
    LET a == get_browserless_manager(g, heap, env)
    IN  IF a.raised THEN ConfigError(a, rem, "get_browser_content", session_id)
        ELSE LET m == a.managers[a.ret]
                 r == create_driver(m, rem, session_id, connect_ok)
             IN  Out(a.global, [a.managers EXCEPT ![a.ret] = r.mgr], r.remote,
                     Result("get_browser_content", session_id, a.ret,
                            DictHas(m.drivers, session_id), r.ret,
                            Len(r.remote) - Len(rem),
                            IF r.raised \/ ~op_ok THEN "Failed" ELSE "None", <<>>, ""))

\* navigate_to_url with `manager.create_driver(session_id)` alone in place of
\* `manager.get_driver(session_id) or manager.create_driver(session_id)`.
navigate_to_url_always_creates(g, heap, rem, env, session_id, connect_ok, op_ok) ==
    LET o == get_browser_content(g, heap, rem, env, session_id, connect_ok, op_ok)
    IN  [o EXCEPT !.result.op = "navigate_to_url"]

\* navigate_to_url undoing its own create_driver when the page load or the
\* body wait fails.
navigate_to_url_rolls_back(g, heap, rem, env, session_id, connect_ok, op_ok) ==
    LET a == get_browserless_manager(g, heap, env)
    IN  IF a.raised THEN ConfigError(a, rem, "navigate_to_url", session_id)
        ELSE LET m == a.managers[a.ret]
                 got == get_driver(m, rem, session_id)
                 c == IF got.ret # NoDriver THEN got
                      ELSE create_driver(got.mgr, got.remote, session_id, connect_ok)
                 r == IF got.ret = NoDriver /\ ~c.raised /\ ~op_ok
                      THEN [close_driver(c.mgr, c.remote, session_id, FALSE)
                                EXCEPT !.ret = c.ret]
                      ELSE c
             IN  Out(a.global, [a.managers EXCEPT ![a.ret] = r.mgr], r.remote,
                     Result("navigate_to_url", session_id, a.ret,
                            DictHas(m.drivers, session_id), r.ret,
                            Len(r.remote) - Len(rem),
                            IF r.raised \/ ~op_ok THEN "Failed" ELSE "None", <<>>, ""))

\* navigate_to_url
navigate_to_url(g, heap, rem, env, session_id, connect_ok, op_ok) ==
    LET a == get_browserless_manager(g, heap, env)
    IN  IF a.raised THEN ConfigError(a, rem, "navigate_to_url", session_id)
        ELSE LET m == a.managers[a.ret]
                 got == get_driver(m, rem, session_id)
                 r == IF got.ret # NoDriver THEN got
                      ELSE create_driver(got.mgr, got.remote, session_id, connect_ok)
             IN  Out(a.global, [a.managers EXCEPT ![a.ret] = r.mgr], r.remote,
                     Result("navigate_to_url", session_id, a.ret,
                            DictHas(m.drivers, session_id), r.ret,
                            Len(r.remote) - Len(rem),
                            IF r.raised \/ ~op_ok THEN "Failed" ELSE "None", <<>>, ""))

\* session_tool opening a session for an id without one (get_driver(...) or
\* create_driver(...), as navigate_to_url does) instead of raising.
session_tool_opens(op, g, heap, rem, env, session_id, op_ok) ==
    LET o == navigate_to_url(g, heap, rem, env, session_id, TRUE, op_ok)
    IN  [o EXCEPT !.result.op = op]

\* The shape shared by execute_javascript, take_screenshot and get_page_info:
\* get_driver, the no-active-session error, then one delegated driver call.
session_tool(op, g, heap, rem, env, session_id, op_ok) ==
    LET a == get_browserless_manager(g, heap, env)
    IN  IF a.raised THEN ConfigError(a, rem, op, session_id)
        ELSE LET m == a.managers[a.ret]
                 r == get_driver(m, rem, session_id)
             IN  Out(a.global, [a.managers EXCEPT ![a.ret] = r.mgr], r.remote,
                     Result(op, session_id, a.ret, DictHas(m.drivers, session_id),
                            r.ret, Len(r.remote) - Len(rem),
                            IF r.ret = NoDriver THEN "NoSession"
                            ELSE IF ~op_ok THEN "Failed" ELSE "None", <<>>, ""))

\* The shape shared by find_element and click_element: as above, with the
\* locator strategy resolved before the driver is asked for the element.
element_tool(op, g, heap, rem, env, session_id, by, op_ok) ==
    LET a == get_browserless_manager(g, heap, env)
    IN  IF a.raised THEN ConfigError(a, rem, op, session_id)
        ELSE LET m == a.managers[a.ret]
                 r == get_driver(m, rem, session_id)
             IN  Out(a.global, [a.managers EXCEPT ![a.ret] = r.mgr], r.remote,
                     Result(op, session_id, a.ret, DictHas(m.drivers, session_id),
                            r.ret, Len(r.remote) - Len(rem),
                            IF r.ret = NoDriver THEN "NoSession"
                            ELSE IF ~op_ok THEN "Failed" ELSE "None",
                            by,
                            IF r.ret = NoDriver THEN "" ELSE by_method(by)))

find_element(g, heap, rem, env, session_id, by, op_ok) ==
    element_tool("find_element", g, heap, rem, env, session_id, by, op_ok)

click_element(g, heap, rem, env, session_id, by, op_ok) ==
    element_tool("click_element", g, heap, rem, env, session_id, by, op_ok)

execute_javascript(g, heap, rem, env, session_id, op_ok) ==
    session_tool("execute_javascript", g, heap, rem, env, session_id, op_ok)

take_screenshot(g, heap, rem, env, session_id, op_ok) ==
    session_tool("take_screenshot", g, heap, rem, env, session_id, op_ok)

get_page_info(g, heap, rem, env, session_id, op_ok) ==
    session_tool("get_page_info", g, heap, rem, env, session_id, op_ok)

\* close_browser; quit_fails is whether the driver's quit raises.
close_browser(g, heap, rem, env, session_id, quit_fails) ==
    LET a == get_browserless_manager(g, heap, env)
    IN  IF a.raised THEN ConfigError(a, rem, "close_browser", session_id)
        ELSE LET m == a.managers[a.ret]
                 r == close_driver(m, rem, session_id, quit_fails)
             IN  Out(a.global, [a.managers EXCEPT ![a.ret] = r.mgr], r.remote,
                     Result("close_browser", session_id, a.ret,
                            DictHas(m.drivers, session_id),
                            DictGet(m.drivers, session_id), 0,
                            IF r.raised THEN "KeyError" ELSE "None", <<>>, ""))

\* manager.close_all() on the installed manager, as the tests call it;
\* server.py itself has no caller (session_id 0: the call names no session).
close_all_call(g, heap, rem, failing) ==
    LET r == close_all(heap[g], rem, failing)
    IN  Out(g, [heap EXCEPT ![g] = r.mgr], r.remote,
            Result("close_all", 0, g, heap[g].drivers # <<>>, NoDriver, 0,
                   IF r.raised THEN "KeyError" ELSE "None", <<>>, ""))

\* ---------------------------------------------------------------- history

\* The sessions mapping of the installed manager (empty while none is).
Drivers ==
    IF browserless_manager = NoManager THEN <<>>
    ELSE managers[browserless_manager].drivers

\* Per session id: issued is the driver the latest create_driver returned for
\* it, navEst the number of connections navigate_to_url established for it,
\* navRet whether a navigate_to_url obtained a driver for it, resEst whether
\* get_browser_content established a connection for it, all four since
\* close_driver was last invoked for it (or since the start); closes is the
\* number of close_driver invocations for it since a connection was last
\* established for it; failedNav is whether a navigate_to_url established a
\* connection for it and then failed, since close_driver was last invoked
\* for it.
Fresh ==
    [issued |-> NoDriver, navEst |-> 0, navRet |-> FALSE, resEst |-> FALSE, closes |-> 0,
     failedNav |-> FALSE]

Established(res) == res.connects > 0 /\ res.driver # NoDriver

\* The history after an invocation with record res, made when the sessions
\* mapping was `before`.
Track(s, res, before) ==
    IF res.raised = "ValueError" THEN s
    ELSE IF res.op = "navigate_to_url"
    THEN [s EXCEPT ![res.session_id] =
            [issued |-> IF Established(res) THEN res.driver ELSE @.issued,
             navEst |-> @.navEst + (IF Established(res) THEN 1 ELSE 0),
             navRet |-> @.navRet \/ res.driver # NoDriver,
             resEst |-> @.resEst,
             closes |-> IF Established(res) THEN 0 ELSE @.closes,
             failedNav |-> @.failedNav \/ (Established(res) /\ res.raised = "Failed")]]
    ELSE IF res.op = "get_browser_content"
    THEN [s EXCEPT ![res.session_id] =
            [issued |-> IF Established(res) THEN res.driver ELSE @.issued,
             navEst |-> @.navEst,
             navRet |-> @.navRet,
             resEst |-> @.resEst \/ Established(res),
             closes |-> IF Established(res) THEN 0 ELSE @.closes,
             failedNav |-> @.failedNav]]
    ELSE IF res.op = "close_browser"
    THEN [s EXCEPT ![res.session_id] = [Fresh EXCEPT !.closes = s[res.session_id].closes + 1]]
    ELSE IF res.op = "close_all"
    THEN [sid \in Sessions |->
            IF \E i \in 1..Len(before) : before[i].k = sid
            THEN [Fresh EXCEPT !.closes = s[sid].closes + 1]
            ELSE s[sid]]
    ELSE s

\* ---------------------------------------------------------------- specification

Init ==
    /\ environ \in [BROWSERLESS_URL : UrlValues, BROWSERLESS_TOKEN : TokenValues]
    /\ browserless_manager = NoManager
    /\ managers = <<>>
    /\ remote = <<>>
    /\ calls = 0
    /\ last = Result("init", 0, NoManager, FALSE, NoDriver, 0, "None", <<>>, "")
    /\ since = [sid \in Sessions |-> Fresh]
    /\ waiting = <<>>
    /\ running = <<>>
    /\ stopped = FALSE

\* One completed handler invocation.
Apply(o) ==
    /\ browserless_manager' = o.global
    /\ managers' = o.managers
    /\ remote' = o.remote
    /\ last' = o.result
    /\ since' = Track(since, o.result, Drivers)
    /\ calls' = calls + 1
    /\ UNCHANGED environ

\* A handler called directly, outside the server's dispatch.
Direct(o) == Apply(o) /\ UNCHANGED dispatch

GetBrowserContent ==
    /\ calls < MaxCalls
    /\ \E sid \in Sessions, connect_ok \in BOOLEAN, op_ok \in BOOLEAN :
          Direct(get_browser_content(browserless_manager, managers, remote, environ,
                                     sid, connect_ok, op_ok))

NavigateToUrl ==
    /\ calls < MaxCalls
    /\ \E sid \in Sessions, connect_ok \in BOOLEAN, op_ok \in BOOLEAN :
          Direct(navigate_to_url(browserless_manager, managers, remote, environ,
                                 sid, connect_ok, op_ok))

\* find_element called with a strategy name of bys.
FindElementWith(bys) ==
    /\ calls < MaxCalls
    /\ \E sid \in Sessions, by \in bys, op_ok \in BOOLEAN :
          Direct(find_element(browserless_manager, managers, remote, environ,
                              sid, by, op_ok))

\* click_element called with a strategy name of bys.
ClickElementWith(bys) ==
    /\ calls < MaxCalls
    /\ \E sid \in Sessions, by \in bys, op_ok \in BOOLEAN :
          Direct(click_element(browserless_manager, managers, remote, environ,
                               sid, by, op_ok))

FindElement == FindElementWith(CommonBy)

ClickElement == ClickElementWith(CommonBy)

ExecuteJavascript ==
    /\ calls < MaxCalls
    /\ \E sid \in Sessions, op_ok \in BOOLEAN :
          Direct(execute_javascript(browserless_manager, managers, remote, environ,
                                    sid, op_ok))

TakeScreenshot ==
    /\ calls < MaxCalls
    /\ \E sid \in Sessions, op_ok \in BOOLEAN :
          Direct(take_screenshot(browserless_manager, managers, remote, environ,
                                 sid, op_ok))

GetPageInfo ==
    /\ calls < MaxCalls
    /\ \E sid \in Sessions, op_ok \in BOOLEAN :
          Direct(get_page_info(browserless_manager, managers, remote, environ,
                               sid, op_ok))

CloseBrowser ==
    /\ calls < MaxCalls
    /\ \E sid \in Sessions, quit_fails \in BOOLEAN :
          Direct(close_browser(browserless_manager, managers, remote, environ,
                               sid, quit_fails))

CloseAll ==
    /\ calls < MaxCalls
    /\ browserless_manager # NoManager
    /\ \E failing \in SUBSET {managers[browserless_manager].drivers[i].v :
                                i \in 1..Len(managers[browserless_manager].drivers)} :
          Direct(close_all_call(browserless_manager, managers, remote, failing))

\* The environment changes under the running process (os.environ is patched).
SetEnv ==
    /\ calls < MaxCalls
    /\ \E e \in [BROWSERLESS_URL : UrlValues, BROWSERLESS_TOKEN : TokenValues] :
          /\ e # environ
          /\ environ' = e
    /\ calls' = calls + 1
    /\ last' = Result("setenv", 0, NoManager, FALSE, NoDriver, 0, "None", <<>>, "")
    /\ UNCHANGED <<browserless_manager, managers, remote, since>>
    /\ UNCHANGED dispatch

Next ==
    \/ GetBrowserContent
    \/ NavigateToUrl
    \/ FindElement
    \/ ClickElement
    \/ ExecuteJavascript
    \/ TakeScreenshot
    \/ GetPageInfo
    \/ CloseBrowser
    \/ CloseAll
    \/ SetEnv

Spec == Init /\ [][Next]_vars

\* The runs that exercise strategy resolution: one environment, sessions
\* opened by navigate_to_url, and find_element and click_element called with
\* every strategy name of ByValues.
InitStrategy ==
    /\ Init
    /\ environ = [BROWSERLESS_URL |-> Some(<<"h">>), BROWSERLESS_TOKEN |-> NoneStr]

FindElementAny == FindElementWith(ByValues)

ClickElementAny == ClickElementWith(ByValues)

NextStrategy ==
    \/ NavigateToUrl
    \/ FindElementAny
    \/ ClickElementAny
    \/ CloseBrowser

SpecStrategy == InitStrategy /\ [][NextStrategy]_vars

\* ---------------------------------------------------------------- dispatch

\* The handlers registered with @mcp.resource and @mcp.tool.
Tools ==
    {"get_browser_content", "navigate_to_url", "find_element", "click_element",
     "execute_javascript", "take_screenshot", "close_browser", "get_page_info"}

\* A request names a handler and carries the session id of its context.
Requests == [op : Tools, session_id : Sessions]

\* ElementParams.by when the request does not give it.
DefaultBy == <<"c", "s", "s">>

\* main() before mcp.run(): it returns at once unless BROWSERLESS_URL is set
\* and not empty.
main_serves(env) == Truthy(env.BROWSERLESS_URL)

\* The handler of request t run from start to return; connect_ok and op_ok
\* are whether webdriver.Remote and the delegated driver call succeed.
call_handler(t, g, heap, rem, env, connect_ok, op_ok) ==
    CASE t.op = "get_browser_content" ->
            get_browser_content(g, heap, rem, env, t.session_id, connect_ok, op_ok)
      [] t.op = "navigate_to_url" ->
            navigate_to_url(g, heap, rem, env, t.session_id, connect_ok, op_ok)
      [] t.op = "find_element" ->
            find_element(g, heap, rem, env, t.session_id, DefaultBy, op_ok)
      [] t.op = "click_element" ->
            click_element(g, heap, rem, env, t.session_id, DefaultBy, op_ok)
      [] t.op = "execute_javascript" ->
            execute_javascript(g, heap, rem, env, t.session_id, op_ok)
      [] t.op = "take_screenshot" ->
            take_screenshot(g, heap, rem, env, t.session_id, op_ok)
      [] t.op = "get_page_info" ->
            get_page_info(g, heap, rem, env, t.session_id, op_ok)
      [] t.op = "close_browser" ->
            close_browser(g, heap, rem, env, t.session_id, ~op_ok)

\* The process as asyncio.run(main()) starts it.
InitServer ==
    /\ environ \in [BROWSERLESS_URL : UrlValues, BROWSERLESS_TOKEN : TokenValues]
    /\ browserless_manager = NoManager
    /\ managers = <<>>
    /\ remote = <<>>
    /\ calls = 0
    /\ last = Result("init", 0, NoManager, FALSE, NoDriver, 0, "None", <<>>, "")
    /\ since = [sid \in Sessions |-> Fresh]
    /\ waiting = <<>>
    /\ running = <<>>
    /\ stopped = ~main_serves(environ)

\* A client sends request t to the serving process.
Arrive(t) ==
    /\ ~stopped
    /\ calls + Len(waiting) + Len(running) < MaxCalls
    /\ waiting' = Append(waiting, t)
    /\ UNCHANGED <<environ, browserless_manager, managers, remote, calls, last, since,
                   running, stopped>>

\* The event loop starts the handler coroutine of the i-th waiting request.
\* The handlers are `async def` bodies without an `await`, and every selenium
\* call in them is synchronous: the loop's one thread stays inside a handler
\* from its first statement to its return, so it can start one only when it
\* runs none.
StartTask(i) ==
    /\ ~stopped
    /\ i <= Len(waiting)
    /\ running = <<>>
    /\ running' = <<[op |-> waiting[i].op, session_id |-> waiting[i].session_id,
                     had |-> DictHas(Drivers, waiting[i].session_id)]>>
    /\ waiting' = [j \in 1..(Len(waiting) - 1) |->
                      IF j < i THEN waiting[j] ELSE waiting[j + 1]]
    /\ UNCHANGED <<environ, browserless_manager, managers, remote, calls, last, since,
                   stopped>>

\* The running handler returns, its remote round trips over.
FinishTask ==
    /\ running # <<>>
    /\ \E connect_ok \in BOOLEAN, op_ok \in BOOLEAN :
          Apply(call_handler(running[1], browserless_manager, managers, remote,
                             environ, connect_ok, op_ok))
    /\ running' = <<>>
    /\ UNCHANGED <<waiting, stopped>>

\* mcp.run() returns and main() with it: nothing follows the await.
Shutdown ==
    /\ ~stopped
    /\ running = <<>>
    /\ stopped' = TRUE
    /\ UNCHANGED <<environ, browserless_manager, managers, remote, calls, last, since,
                   waiting, running>>

NextServer ==
    \/ \E t \in Requests : Arrive(t)
    \/ \E i \in 1..MaxCalls : StartTask(i)
    \/ FinishTask
    \/ Shutdown

SpecServer == InitServer /\ [][NextServer]_vars

\* ---------------------------------------------------------------- properties

\* The step just taken completed handler `op` with the manager resolved.
Completed(op) ==
    /\ calls' = calls + 1
    /\ last'.op = op
    /\ last'.raised # "ValueError"

\* The drivers webdriver.Remote has returned: the established connections.
Connections(rem) == {h \in 1..Len(rem) : rem[h].ok}

\* C1, one call: a navigate_to_url for a session id without an entry makes
\* exactly one webdriver.Remote call, and the driver that call returns is the
\* one new connection, mapped to the id and used by the handler; for an id
\* with an entry it makes no webdriver.Remote call, uses the mapped driver and
\* leaves the mapping as it was.
C1_OneCall ==
    Completed("navigate_to_url") =>
        LET sid == last'.session_id
        IN  IF \E i \in 1..Len(Drivers) : Drivers[i].k = sid
            THEN /\ remote' = remote
                 /\ Drivers' = Drivers
                 /\ \E i \in 1..Len(Drivers) :
                       Drivers[i].k = sid /\ Drivers[i].v = last'.driver
            ELSE /\ Len(remote') = Len(remote) + 1
                 /\ SubSeq(remote', 1, Len(remote)) = remote
                 /\ IF remote'[Len(remote')].ok
                    THEN /\ Connections(remote') = Connections(remote) \cup {last'.driver}
                         /\ last'.driver \notin Connections(remote)
                         /\ \E i \in 1..Len(Drivers') :
                               Drivers'[i].k = sid /\ Drivers'[i].v = last'.driver
                    ELSE /\ Connections(remote') = Connections(remote)
                         /\ Drivers' = Drivers

\* C1, a sequence: between two close_driver invocations for a session id, the
\* navigate_to_url calls for it establish at most one connection, and exactly
\* one once one of them has obtained a driver that get_browser_content did not
\* establish.
C1_OneSequence ==
    \A sid \in Sessions :
        /\ since[sid].navEst <= 1
        /\ (since[sid].navRet /\ ~since[sid].resEst) => since[sid].navEst = 1

\* C1: get_or_create in navigate_to_url establishes exactly one connection for
\* an unmapped session id and none for a mapped one, so that any sequence of
\* navigate calls on one id without a close in between establishes exactly one.
C1_GetOrCreateOnce == [][C1_OneCall]_vars /\ []C1_OneSequence

\* A second navigate_to_url on a session that the first one opened: it found the
\* entry, made no connection, and the session still counts one connection.
C1_Witness ==
    /\ last.op = "navigate_to_url"
    /\ last.had
    /\ last.connects = 0
    /\ last.driver # NoDriver
    /\ since[last.session_id].navEst = 1
    /\ ~since[last.session_id].resEst

\* The handlers that resolve the session with get_driver alone.
GetOnlyTools ==
    {"find_element", "click_element", "execute_javascript", "take_screenshot",
     "get_page_info"}

\* C2, the function: on the installed manager, get_driver returns the manager
\* and the connection log as they were, raises nothing, and returns None
\* exactly for the ids without an entry and the mapped driver for the others.
C2_GetIsPure ==
    browserless_manager # NoManager =>
        \A sid \in Sessions :
            LET m == managers[browserless_manager]
                r == get_driver(m, remote, sid)
            IN  /\ r.mgr = m
                /\ r.remote = remote
                /\ ~r.raised
                /\ IF \E i \in 1..Len(m.drivers) : m.drivers[i].k = sid
                   THEN /\ r.ret # NoDriver
                        /\ \E i \in 1..Len(m.drivers) :
                              m.drivers[i].k = sid /\ m.drivers[i].v = r.ret
                   ELSE r.ret = NoDriver

\* C2, the callers: a handler that resolves the session with get_driver alone
\* leaves the sessions mapping and the connection log unchanged, and reports
\* no active session exactly when the id has no entry.
C2_GetOnlyStep ==
    \A op \in GetOnlyTools :
        Completed(op) =>
            LET sid == last'.session_id
                mapped == \E i \in 1..Len(Drivers) : Drivers[i].k = sid
            IN  /\ Drivers' = Drivers
                /\ remote' = remote
                /\ (last'.raised = "NoSession") <=> ~mapped
                /\ (last'.driver = NoDriver) <=> ~mapped
                /\ mapped => \E i \in 1..Len(Drivers) :
                                Drivers[i].k = sid /\ Drivers[i].v = last'.driver

\* C2: get_driver never creates: it leaves the sessions mapping unchanged and
\* establishes no connection, returning None exactly when the id has no entry
\* and the mapped driver otherwise.
C2_GetNeverCreates == []C2_GetIsPure /\ [][C2_GetOnlyStep]_vars

\* A find_element for a session without an entry, reported as no active
\* session, while another session has one.
C2_Witness ==
    /\ last.op = "find_element"
    /\ last.raised = "NoSession"
    /\ ~last.had
    /\ \E i \in 1..Len(Drivers) : Drivers[i].k # last.session_id

\* C3: from the return of create_driver(id) with driver h until close_driver(id)
\* is invoked, through the tool operations in between, get_driver(id) returns
\* h itself.
C3_GetReturnsCreated ==
    \A sid \in Sessions :
        since[sid].issued # NoDriver =>
            /\ browserless_manager # NoManager
            /\ get_driver(managers[browserless_manager], remote, sid).ret
                   = since[sid].issued

\* The last event of a run, a click_element, is handed the driver that
\* create_driver returned for its session earlier in the run.
C3_Witness ==
    /\ calls = MaxCalls
    /\ last.op = "click_element"
    /\ last.driver # NoDriver
    /\ last.driver = since[last.session_id].issued

\* C4, the function: on the installed manager, close_driver(id) raises
\* nothing, leaves id without an entry and every other entry as it was, and
\* a second close_driver(id) raises nothing and changes neither the mapping
\* nor any driver's quit count.
C4_CloseTwice ==
    browserless_manager # NoManager =>
        \A sid \in Sessions, f1 \in BOOLEAN, f2 \in BOOLEAN :
            LET m == managers[browserless_manager]
                r1 == close_driver(m, remote, sid, f1)
                r2 == close_driver(r1.mgr, r1.remote, sid, f2)
            IN  /\ ~r1.raised
                /\ ~r2.raised
                /\ ~\E i \in 1..Len(r1.mgr.drivers) : r1.mgr.drivers[i].k = sid
                /\ r1.mgr.drivers = SelectSeq(m.drivers, LAMBDA e : e.k # sid)
                /\ r2.mgr = r1.mgr
                /\ r2.remote = r1.remote

\* C4, the caller: a close_browser leaves its session id without an entry
\* and the other entries as they were and raises nothing; for an id that had
\* no entry it changes neither the mapping nor any driver's quit count.
C4_CloseStep ==
    Completed("close_browser") =>
        LET sid == last'.session_id
        IN  /\ last'.raised = "None"
            /\ Drivers' = SelectSeq(Drivers, LAMBDA e : e.k # sid)
            /\ (~\E i \in 1..Len(Drivers) : Drivers[i].k = sid) =>
                   (Drivers' = Drivers /\ remote' = remote)

\* C4: close_driver(id) removes id from the mapping and is idempotent: a
\* second close is a no-op that raises nothing, quits no driver and leaves the
\* mapping unchanged.
C4_CloseIdempotent == []C4_CloseTwice /\ [][C4_CloseStep]_vars

\* The second of two close_browser calls for a session whose driver the first
\* one quit: it found no entry.
C4_Witness ==
    /\ last.op = "close_browser"
    /\ ~last.had
    /\ last.raised = "None"
    /\ since[last.session_id].closes = 2
    /\ \E h \in 1..Len(remote) : remote[h].quits = 1

\* The drivers the sessions mapping holds.
Tracked == {Drivers[i].v : i \in 1..Len(Drivers)}

\* C5, the function: on the installed manager, whichever quits fail,
\* close_all raises nothing, leaves the mapping empty, and raises the quit
\* count of every tracked driver from 0 to 1 and of no other driver.
C5_CloseAllPure ==
    browserless_manager # NoManager =>
        \A failing \in SUBSET Tracked :
            LET r == close_all(managers[browserless_manager], remote, failing)
            IN  /\ ~r.raised
                /\ r.mgr.drivers = <<>>
                /\ Len(r.remote) = Len(remote)
                /\ \A h \in 1..Len(remote) :
                      r.remote[h].quits =
                          remote[h].quits + (IF h \in Tracked THEN 1 ELSE 0)
                /\ \A h \in Tracked : r.remote[h].quits = 1

\* C5, the call: a close_all leaves the mapping empty and has quit every
\* driver that was tracked exactly once, and no other driver.
C5_CloseAllStep ==
    Completed("close_all") =>
        /\ last'.raised = "None"
        /\ Drivers' = <<>>
        /\ Len(remote') = Len(remote)
        /\ \A h \in 1..Len(remote) :
              remote'[h].quits = remote[h].quits + (IF h \in Tracked THEN 1 ELSE 0)
        /\ \A h \in Tracked : remote'[h].quits = 1

\* C5: close_all() leaves the sessions mapping empty and invokes quit exactly
\* once on every driver that was tracked when it was called.
C5_CloseAllClosesEach == []C5_CloseAllPure /\ [][C5_CloseAllStep]_vars

\* A close_all that found two sessions tracked and quit both drivers.
C5_Witness ==
    /\ last.op = "close_all"
    /\ last.had
    /\ Drivers = <<>>
    /\ Cardinality({h \in 1..Len(remote) : remote[h].quits = 1}) = 2

\* The steps that are invocations of a registered handler.
HandlerStep ==
    /\ calls' = calls + 1
    /\ last'.op \notin {"setenv", "close_all"}

\* BROWSERLESS_URL is unset or empty.
EndpointMissing == environ.BROWSERLESS_URL \in {NoneStr, Some(<<>>)}

\* C6, the call: a handler invoked while no manager is installed and the
\* endpoint is missing raises the ValueError, installs no manager, constructs
\* none and makes no webdriver.Remote call.
C6_MissingStep ==
    (HandlerStep /\ browserless_manager = NoManager /\ EndpointMissing) =>
        /\ last'.raised = "ValueError"
        /\ browserless_manager' = NoManager
        /\ managers' = <<>>
        /\ remote' = <<>>

\* C6, the state: while no manager is installed, none has been constructed
\* and no webdriver.Remote call has been made.
C6_NothingBefore ==
    browserless_manager = NoManager => (managers = <<>> /\ remote = <<>>)

\* C6: constructing the registry without the endpoint configured fails with
\* the configuration error before any network activity: no registry is
\* installed, no connection is made, no sessions mapping exists.
C6_MissingEndpointFails == []C6_NothingBefore /\ [][C6_MissingStep]_vars

\* A handler has just raised the ValueError with BROWSERLESS_URL empty (not
\* unset), and still no manager is installed.
C6_Witness ==
    /\ last.raised = "ValueError"
    /\ last.op = "navigate_to_url"
    /\ environ.BROWSERLESS_URL = Some(<<>>)
    /\ browserless_manager = NoManager
    /\ remote = <<>>

\* s is u without its trailing "/" characters.
IsStripped(s, u) ==
    /\ Len(s) <= Len(u)
    /\ SubSeq(u, 1, Len(s)) = s
    /\ \A i \in (Len(s) + 1)..Len(u) : u[i] = "/"
    /\ (s # <<>> => s[Len(s)] # "/")

\* C7, first construction: the manager installed holds the endpoint (trailing
\* slashes dropped) and the credential of the environment at that call.
C7_Captured ==
    (browserless_manager = NoManager /\ browserless_manager' # NoManager) =>
        /\ IsStripped(managers'[browserless_manager'].browserless_url,
                      environ.BROWSERLESS_URL[1])
        /\ managers'[browserless_manager'].auth_token = environ.BROWSERLESS_TOKEN
        /\ last'.manager = browserless_manager'

\* C7, afterwards: once a manager is installed, every step leaves the same
\* manager installed with the same endpoint and credential, constructs no
\* other, and every handler is handed that manager.
C7_Kept ==
    browserless_manager # NoManager =>
        /\ browserless_manager' = browserless_manager
        /\ Len(managers') = Len(managers)
        /\ managers'[browserless_manager].browserless_url
               = managers[browserless_manager].browserless_url
        /\ managers'[browserless_manager].auth_token
               = managers[browserless_manager].auth_token
        /\ (calls' = calls + 1 /\ last'.op # "setenv") =>
               last'.manager = browserless_manager

\* C7: get_browserless_manager() is a per-process singleton: after a call has
\* succeeded every later call returns the same manager, with the endpoint and
\* credential captured at first construction, whatever BROWSERLESS_URL and
\* BROWSERLESS_TOKEN have become.
C7_Singleton == [][C7_Captured /\ C7_Kept]_vars

\* A handler was handed the installed manager after the environment changed:
\* BROWSERLESS_URL is unset now and the token differs from the captured one.
C7_Witness ==
    /\ browserless_manager # NoManager
    /\ last.op = "navigate_to_url"
    /\ last.manager = browserless_manager
    /\ environ.BROWSERLESS_URL = NoneStr
    /\ environ.BROWSERLESS_TOKEN # managers[browserless_manager].auth_token
    /\ calls = MaxCalls

\* C8: every webdriver.Remote call of create_driver is given, when the
\* manager holds a credential, an AuthenticatedRemoteConnection for
\* <endpoint>/webdriver carrying that credential and never the string, and
\* when it holds none (None or the empty string) the string
\* <endpoint>/webdriver itself.
C8_ExecutorByCredential ==
    \A i \in 1..Len(remote) :
        /\ browserless_manager # NoManager
        /\ LET m == managers[browserless_manager]
               e == remote[i].command_executor
               url == m.browserless_url \o <<"/", "w", "e", "b", "d", "r", "i", "v", "e", "r">>
           IN  IF m.auth_token \in {NoneStr, Some(<<>>)}
               THEN e.cls = "str" /\ e.value = url
               ELSE /\ e.cls = "AuthenticatedRemoteConnection"
                    /\ e.value = url
                    /\ e.auth_token = m.auth_token

\* A connection was established through an AuthenticatedRemoteConnection.
C8_Witness ==
    \E i \in 1..Len(remote) :
        /\ remote[i].ok
        /\ remote[i].command_executor.cls = "AuthenticatedRemoteConnection"
        /\ remote[i].command_executor.auth_token = Some(<<"t">>)

\* The locator kind each strategy name of ByValues is to resolve to.
C9_Expected(by) ==
    CASE by = <<"c", "s", "s">> -> "By.CSS_SELECTOR"
      [] by = <<"x", "p", "a", "t", "h">> -> "By.XPATH"
      [] by = <<"X", "P", "A", "T", "H">> -> "By.XPATH"
      [] by = <<"i", "d">> -> "By.ID"
      [] by = <<"I", "d">> -> "By.ID"
      [] by = <<"n", "a", "m", "e">> -> "By.NAME"
      [] by = <<"c", "l", "a", "s", "s", "_", "n", "a", "m", "e">> -> "By.CLASS_NAME"
      [] by = <<"C", "l", "a", "s", "s", "_", "N", "a", "m", "e">> -> "By.CLASS_NAME"
      [] by = <<"t", "a", "g", "_", "n", "a", "m", "e">> -> "By.TAG_NAME"
      [] by = <<"l", "i", "n", "k", "_", "t", "e", "x", "t">> -> "By.LINK_TEXT"
      [] by = <<"p", "a", "r", "t", "i", "a", "l", "_", "l", "i", "n", "k", "_", "t", "e", "x", "t">>
            -> "By.PARTIAL_LINK_TEXT"
      [] OTHER -> "By.CSS_SELECTOR"

\* C9: find_element and click_element resolve every strategy name: each of
\* the eight recognised names, in any letter case, to its own locator kind,
\* and every other string to the CSS selector.
C9_StrategyResolves ==
    (last.op \in {"find_element", "click_element"} /\ last.driver # NoDriver) =>
        /\ last.by \in ByValues
        /\ last.by_method = C9_Expected(last.by)
        /\ last.raised \in {"None", "Failed"}

\* A find_element with strategy "unknown_strategy" went through, resolved to
\* the CSS selector.
C9_Witness ==
    /\ last.op = "find_element"
    /\ last.by = <<"u", "n", "k", "n", "o", "w", "n", "_", "s", "t", "r", "a", "t", "e", "g", "y">>
    /\ last.by_method = "By.CSS_SELECTOR"
    /\ last.raised = "None"

\* C10, the state: no two entries of the mapping have the same session id,
\* and every mapped driver is one webdriver.Remote returned and quit has never
\* been invoked on.
C10_MappedLive ==
    /\ \A i \in 1..Len(Drivers), j \in 1..Len(Drivers) :
          Drivers[i].k = Drivers[j].k => i = j
    /\ \A i \in 1..Len(Drivers) :
          /\ Drivers[i].k \in Sessions
          /\ Drivers[i].v \in 1..Len(remote)
          /\ remote[Drivers[i].v].ok
          /\ remote[Drivers[i].v].quits = 0

\* C10, the step: a session id with an entry is without one after a step
\* only if the step is a close_browser for that id or a close_all.
C10_LeavesByClose ==
    \A sid \in Sessions :
        ((\E i \in 1..Len(Drivers) : Drivers[i].k = sid)
            /\ ~(\E i \in 1..Len(Drivers') : Drivers'[i].k = sid)) =>
        /\ calls' = calls + 1
        /\ \/ last'.op = "close_browser" /\ last'.session_id = sid
           \/ last'.op = "close_all"

\* C10: each session id maps to at most one driver, every mapped driver is
\* live (quit was never invoked on it), and an entry leaves the mapping only
\* by a close of its session id.
C10_RegistryInvariant == []C10_MappedLive /\ [][C10_LeavesByClose]_vars

\* One of two open sessions was just closed: its driver is quit and out of the
\* mapping, the other session's driver is mapped and live.
C10_Witness ==
    /\ last.op = "close_browser"
    /\ last.had
    /\ Len(Drivers) = 1
    /\ remote[last.driver].quits = 1
    /\ Drivers[1].k # last.session_id

\* C11: find_element, click_element, execute_javascript, take_screenshot and
\* get_page_info invoked for a session id without an entry raise the
\* no-active-session error, make no webdriver.Remote call and leave the
\* sessions mapping unchanged.  (When no manager is installed and none can be
\* constructed there is no mapping: the call raises the ValueError instead,
\* and likewise connects nothing and maps nothing.)
C11_NoSessionError ==
    [][\A op \in GetOnlyTools :
          (calls' = calls + 1 /\ last'.op = op
              /\ ~\E i \in 1..Len(Drivers) : Drivers[i].k = last'.session_id) =>
          /\ remote' = remote
          /\ Drivers' = Drivers
          /\ last'.driver = NoDriver
          /\ last'.raised =
                 (IF browserless_manager = NoManager /\ EndpointMissing
                  THEN "ValueError" ELSE "NoSession")]_vars

\* A get_page_info for a session that was opened and then closed: it raised
\* the no-active-session error.
C11_Witness ==
    /\ last.op = "get_page_info"
    /\ last.raised = "NoSession"
    /\ since[last.session_id].closes = 1
    /\ \E h \in 1..Len(remote) : remote[h].quits = 1
    /\ Drivers = <<>>

\* C15, the functions: on the installed manager, a close_driver whose quit
\* fails raises nothing and removes the entry, and a close_all in which some
\* quits fail raises nothing, empties the mapping and has invoked quit once
\* on every tracked driver, the failing ones included.
C15_FailingQuitPure ==
    browserless_manager # NoManager =>
        LET m == managers[browserless_manager]
        IN  /\ \A i \in 1..Len(m.drivers) :
                  LET r == close_driver(m, remote, m.drivers[i].k, TRUE)
                      h == m.drivers[i].v
                  IN  /\ ~r.raised
                      /\ r.remote[h].quit_errors = remote[h].quit_errors + 1
                      /\ ~\E j \in 1..Len(r.mgr.drivers) :
                             r.mgr.drivers[j].k = m.drivers[i].k
            /\ \A failing \in SUBSET Tracked :
                  LET r == close_all(m, remote, failing)
                  IN  /\ ~r.raised
                      /\ r.mgr.drivers = <<>>
                      /\ \A h \in Tracked :
                            /\ r.remote[h].quits = 1
                            /\ r.remote[h].quit_errors = (IF h \in failing THEN 1 ELSE 0)

\* C15, the calls: a close_browser or close_all during which a quit failed
\* reports success, and the sessions it was to close have no entry.
C15_FailingQuitStep ==
    \A op \in {"close_browser", "close_all"} :
        (Completed(op)
            /\ \E h \in 1..Len(remote) : remote'[h].quit_errors > remote[h].quit_errors) =>
        /\ last'.raised = "None"
        /\ IF op = "close_all" THEN Drivers' = <<>>
           ELSE ~\E i \in 1..Len(Drivers') : Drivers'[i].k = last'.session_id

\* C15: close is best-effort: a quit that fails during close_driver(id) is
\* swallowed, id is still removed, close_browser still reports success, and
\* close_all still closes and removes the remaining sessions.
C15_CloseBestEffort == []C15_FailingQuitPure /\ [][C15_FailingQuitStep]_vars

\* A close_all over two sessions in which the first driver's quit failed: the
\* second driver was quit all the same and the mapping is empty.
C15_Witness ==
    /\ last.op = "close_all"
    /\ last.raised = "None"
    /\ Drivers = <<>>
    /\ Len(remote) = 2
    /\ remote[1].quit_errors = 1
    /\ remote[2].quits = 1
    /\ remote[2].quit_errors = 0

\* The established connections no entry holds and quit was never invoked on.
Abandoned == {h \in Connections(remote) : h \notin Tracked /\ remote[h].quits = 0}

\* C16, the function: create_driver for an id with an entry maps the id to the
\* new driver only, invokes nothing on the driver the entry held, and no
\* close_driver and no close_all on the manager it leaves invokes quit on
\* that driver.
C16_OverwritePure ==
    browserless_manager # NoManager =>
        LET m == managers[browserless_manager]
        IN  \A i \in 1..Len(m.drivers) :
                LET old == m.drivers[i].v
                    r == create_driver(m, remote, m.drivers[i].k, TRUE)
                IN  /\ DictGet(r.mgr.drivers, m.drivers[i].k) = r.ret
                    /\ r.ret # old
                    /\ Len(r.mgr.drivers) = Len(m.drivers)
                    /\ r.remote[old] = remote[old]
                    /\ \A sid \in Sessions, fails \in BOOLEAN :
                          close_driver(r.mgr, r.remote, sid, fails).remote[old] = remote[old]
                    /\ \A failing \in SUBSET (1..Len(r.remote)) :
                          close_all(r.mgr, r.remote, failing).remote[old] = remote[old]

\* C16, the resource: a get_browser_content that establishes a connection for
\* an id with an entry leaves the driver the entry held as it was, in no
\* entry.
C16_ResourceStep ==
    (Completed("get_browser_content") /\ Established(last')
        /\ \E i \in 1..Len(Drivers) : Drivers[i].k = last'.session_id) =>
    LET old == DictGet(Drivers, last'.session_id)
    IN  /\ remote'[old] = remote[old]
        /\ old \notin Tracked'
        /\ DictGet(Drivers', last'.session_id) = last'.driver

\* C16, afterwards: a connection in no entry that quit was never invoked on
\* stays so whatever is called.
C16_StaysAbandoned ==
    \A h \in Abandoned : h \in Abandoned'

\* C16: create_driver on a session id that has an entry (as the browser://
\* resource does on every call) overwrites it: quit is not invoked on the
\* prior driver, and no later close_driver or close_all invokes it either.
C16_OverwriteAbandons ==
    []C16_OverwritePure /\ [][C16_ResourceStep /\ C16_StaysAbandoned]_vars

\* The resource was read twice for one session and close_all then ran: the
\* second driver was quit, the first never.
C16_Witness ==
    /\ last.op = "close_all"
    /\ Drivers = <<>>
    /\ Len(remote) = 2
    /\ remote[1].ok /\ remote[1].quits = 0
    /\ remote[2].ok /\ remote[2].quits = 1

\* C17, the failing call: a navigate_to_url that fails after it obtained a
\* driver leaves the id mapped to that driver, with quit not invoked on it;
\* one that fails because webdriver.Remote raised leaves the mapping as it
\* was.
C17_FailedNavigateStep ==
    (Completed("navigate_to_url") /\ last'.raised = "Failed") =>
    IF last'.driver # NoDriver
    THEN /\ \E i \in 1..Len(Drivers') :
                Drivers'[i] = [k |-> last'.session_id, v |-> last'.driver]
         /\ remote'[last'.driver].quits = 0
    ELSE /\ Drivers' = Drivers
         /\ last'.connects = 1
         /\ ~remote'[Len(remote')].ok

\* C17, the entry: an id for which a navigate_to_url established a connection
\* and then failed has an entry until close_driver is invoked for it.
C17_EntryStays ==
    \A sid \in Sessions :
        since[sid].failedNav => \E i \in 1..Len(Drivers) : Drivers[i].k = sid

\* C17, the later calls: find_element, click_element, execute_javascript,
\* take_screenshot and get_page_info for such an id get the mapped driver and
\* do not raise the no-active-session error.
C17_LaterToolStep ==
    \A op \in GetOnlyTools :
        (calls' = calls + 1 /\ last'.op = op /\ since[last'.session_id].failedNav) =>
        /\ last'.raised \in {"None", "Failed"}
        /\ last'.driver = DictGet(Drivers, last'.session_id)

\* C17: a navigate_to_url that fails is not rolled back: when the connection
\* was established and the page load or body wait failed, the new driver stays
\* mapped and later tool calls for the session do not raise the
\* no-active-session error; when webdriver.Remote itself failed, no entry is
\* added.
C17_FailedNavigateKept ==
    []C17_EntryStays /\ [][C17_FailedNavigateStep /\ C17_LaterToolStep]_vars

\* A tool call succeeded on the session a failed navigate_to_url had opened.
C17_Witness ==
    /\ last.op \in GetOnlyTools
    /\ last.raised = "None"
    /\ since[last.session_id].failedNav
    /\ since[last.session_id].navEst = 1
    /\ last.driver = since[last.session_id].issued
    /\ calls = 2

\* C12: under the single-threaded dispatch, two concurrent navigate_to_url
\* calls for the same new session id can race: while one that saw the id
\* absent is in its round trip, the other can start and see it absent too
\* (and so both connect, and the second overwrites the first driver).
C12_SameIdCanRace ==
    \A i \in 1..Len(waiting) :
        (/\ ~stopped
         /\ running # <<>>
         /\ running[1].op = "navigate_to_url"
         /\ ~running[1].had
         /\ waiting[i] = [op |-> "navigate_to_url",
                          session_id |-> running[1].session_id]) =>
        ENABLED StartTask(i)

\* C13: an operation in a remote round trip suspends only its own task: while
\* it waits, a waiting call for a different session id can start.
C13_OtherSessionsProceed ==
    \A i \in 1..Len(waiting) :
        (/\ ~stopped
         /\ running # <<>>
         /\ waiting[i].session_id # running[1].session_id) =>
        ENABLED StartTask(i)

\* C14: when the server's main loop has ended, quit has been invoked on every
\* driver the mapping still tracks.
C14_ClosedAtShutdown ==
    stopped => \A h \in Tracked : remote[h].quits >= 1

====
